---- MODULE Spec2Model ----
(***************************************************************************)
(* Model of the AACT MCP server's tool and resource layer (src/server.py). *)
(* ToolHost invocations of list_tables, describe_table, read_query and     *)
(* append_insight are coroutines of one event loop: every `await` is a     *)
(* point where another invocation may run, the code between two awaits is  *)
(* one atomic step.  Strings the code inspects character by character      *)
(* (query, finding) are sequences of one-character strings.                *)
(***************************************************************************)
EXTENDS Integers, Sequences, FiniteSets, TLC

(* ------------------------------ bounds --------------------------------- *)

\* Invocation slots the ToolHost may have in flight at once.
MaxCalls == 2
\* Findings the memo may hold before the model stops dispatching appends.
MaxMemo == 2
\* Rows the database may hold for one query.
MaxRowsInDb == 12
\* Whitespace characters put in front of a query keyword.
MaxPad == 1

(* ------------------------- program constants --------------------------- *)

\* read_query(..., max_rows: int = 25)
DefaultMaxRows == 25
\* if row_count > 10: report_progress
ProgressThreshold == 10

(* ------------------------------ strings -------------------------------- *)

LowerCase == <<"a","b","c","d","e","f","g","h","i","j","k","l","m",
               "n","o","p","q","r","s","t","u","v","w","x","y","z">>
UpperCase == <<"A","B","C","D","E","F","G","H","I","J","K","L","M",
               "N","O","P","Q","R","S","T","U","V","W","X","Y","Z">>

\* The characters str.strip() removes, as far as the model's alphabet goes.
Whitespace == {" ", "\t", "\n"}

\* str.upper() on one character.
UpperChar(c) ==
    IF \E i \in 1..26 : LowerCase[i] = c
    THEN UpperCase[CHOOSE i \in 1..26 : LowerCase[i] = c]
    ELSE c

\* str.upper()
Upper(s) == [i \in 1..Len(s) |-> UpperChar(s[i])]

\* str.lstrip()
RECURSIVE LStrip(_)
LStrip(s) ==
    IF s # <<>> /\ Head(s) \in Whitespace THEN LStrip(Tail(s)) ELSE s

\* str.rstrip()
RECURSIVE RStrip(_)
RStrip(s) ==
    IF s # <<>> /\ s[Len(s)] \in Whitespace
    THEN RStrip(SubSeq(s, 1, Len(s) - 1))
    ELSE s

\* str.strip()
Strip(s) == RStrip(LStrip(s))

\* str.startswith(prefix)
StartsWith(s, prefix) ==
    /\ Len(s) >= Len(prefix)
    /\ SubSeq(s, 1, Len(prefix)) = prefix

SELECT == <<"S","E","L","E","C","T">>

(* --------------------------- inputs and values ------------------------- *)

Calls == 1..MaxCalls

Tools == {"list_tables", "describe_table", "read_query", "append_insight"}

\* The arguments the ToolHost passes to a tool; a tool reads only its own.
Args(tool, table_name, query, max_rows, finding) ==
    [tool |-> tool, table_name |-> table_name, query |-> query,
     max_rows |-> max_rows, finding |-> finding]

NoArgs == Args("", "", <<>>, DefaultMaxRows, <<>>)

Pad(n, c) == [i \in 1..n |-> c]

\* Leading keywords of the queries a caller sends.
Keywords ==
    { SELECT,
      <<"s","e","L","e","c","t">>,
      <<"S","E","L","E","C">>,
      <<"D","E","L","E","T","E">>,
      <<"i","n","s","e","r","t">>,
      <<"(">> \o SELECT,
      <<>> }

QueryTails == { <<>>, <<" ", "1", " ">> }

\* Queries of the sequential specification: padding, keyword, tail.
Queries ==
    { Pad(n, c) \o kw \o t :
        n \in 0..MaxPad, c \in {" ", "\n"}, kw \in Keywords, t \in QueryTails }

RowLimits == {0, 1, ProgressThreshold, ProgressThreshold + 1, DefaultMaxRows}

Findings == { <<>>, <<" ", " ", " ">>, <<"a">>, <<" ", "b">> }

TableNames == {"", "studies", "nonexistent_table"}

\* Every invocation the sequential specification dispatches.
SeqInputs ==
    {Args("list_tables", "", <<>>, DefaultMaxRows, <<>>)}
    \cup {Args("describe_table", t, <<>>, DefaultMaxRows, <<>>) : t \in TableNames}
    \cup {Args("read_query", "", q, n, <<>>) : q \in Queries, n \in RowLimits}
    \cup {Args("append_insight", "", <<>>, DefaultMaxRows, f) : f \in Findings}

\* The invocations the concurrent specification dispatches.
ConcInputs ==
    {Args("list_tables", "", <<>>, DefaultMaxRows, <<>>)}
    \cup {Args("describe_table", "studies", <<>>, DefaultMaxRows, <<>>)}
    \cup {Args("read_query", "", SELECT \o <<" ", "1">>, DefaultMaxRows, <<>>)}
    \cup {Args("append_insight", "", <<>>, DefaultMaxRows, f) :
            f \in {<<"a">>, <<"b">>}}

\* Row counts the database answers with, per specification.
SeqRowCounts == 0..MaxRowsInDb
ConcRowCounts == {0, ProgressThreshold + 1}

\* A notification or an execute call the invocation made: its kind, a number
\* (row limit, count, progress) and a text or tuple (the SQL, the total).
Event(kind, a, b) == [kind |-> kind, a |-> a, b |-> b]

\* Exceptions.
ValueError(msg) == [type |-> "ValueError", msg |-> msg]
DatabaseError == [type |-> "DatabaseError", msg |-> "execute failed"]
NotifyError == [type |-> "NotifyError", msg |-> "delivery failed"]
NoExc == [type |-> "", msg |-> ""]

\* What the caller gets.
NoOutcome == [kind |-> "none", value |-> <<>>, exc |-> NoExc]
Returned(v) == [kind |-> "returned", value |-> v, exc |-> NoExc]
Raised(e) == [kind |-> "raised", value |-> <<>>, exc |-> e]

\* QueryResult(rows=..., row_count=..., truncated=...)
QueryResult(rows, row_count, truncated) ==
    [rows |-> rows, row_count |-> row_count, truncated |-> truncated]

\* InsightResponse(success=True, total_insights=..., message=...)
InsightResponse(total) ==
    [success |-> TRUE, total_insights |-> total,
     message |-> "Insight added successfully"]

(* ----------------------- collaborators (not in src) -------------------- *)

\* The k rows matching a query, in the database's order.
Rows(k) == [i \in 1..k |-> i]

Min(a, b) == IF a <= b THEN a ELSE b

\* AACTDatabase.execute_query: all matching rows, or the first row_limit.
execute_query(matching, limited, row_limit) ==
    IF limited THEN SubSeq(matching, 1, Min(Len(matching), row_limit))
    ELSE matching

\* MemoManager.add_insights refuses an empty or whitespace-only finding.
add_insights_rejects(finding) == Strip(finding) = <<>>

\* MemoManager.add_insights appends to the tail.
add_insights(memo, finding) == Append(memo, finding)

\* MemoManager.get_insights_memo: a placeholder text, or the findings
\* listed in the order of the memo.
render(memo) ==
    IF memo = <<>>
    THEN [text |-> "No insights have been recorded yet", findings |-> <<>>]
    ELSE [text |-> "Insights", findings |-> memo]

(* ------------------- decisions of the code (server.py) ----------------- *)

\* describe_table: `if not table_name` with the check dropped.
table_name_missing_dropped(table_name) == FALSE

\* describe_table: `if not table_name`
table_name_missing(table_name) == table_name = ""

\* read_query: `if not query`
query_missing(query) == query = <<>>

\* read_query's guard testing for SELECT anywhere in the text.
is_select_anywhere(query) ==
    \E i \in 1..Len(query) :
        StartsWith(SubSeq(Upper(Strip(query)), i, Len(Strip(query))), SELECT)

\* read_query: `query.strip()` then `query.upper().startswith("SELECT")`
is_select(query) == StartsWith(Upper(Strip(query)), SELECT)

\* append_insight: `if not finding`
finding_missing(finding) == finding = <<>>

\* read_query's flag with `>` for `>=`.
truncated_strict(row_count, max_rows) == row_count > max_rows

\* read_query: `truncated=(row_count >= max_rows)`
truncated(row_count, max_rows) == row_count >= max_rows

\* read_query's threshold with `>=` for `>`.
reports_progress_inclusive(row_count) == row_count >= ProgressThreshold

\* read_query: `if row_count > 10`
reports_progress(row_count) == row_count > ProgressThreshold

\* append_insight counting the memo before its own append.
total_insights_stale(before, after) == Len(before)

\* append_insight: `total_insights = len(memo_manager.insights)`, read right
\* after add_insights with no await in between.
total_insights(before, after) == Len(after)

\* A handler that retries the query instead of giving up.
after_execute_error_retry == "execute"

\* `except Exception as e:` is where a failed execute_query continues.
after_execute_error == "except"

\* A handler that logs the error and swallows it.
except_outcome_swallowed(e) == Returned(<<>>)

\* `await ctx.error(...); raise`: the caught exception goes on to the caller.
except_outcome(e) == Raised(e)

\* A handler that takes the last finding back.
memo_after_except_rollback(memo) == SubSeq(memo, 1, Len(memo) - 1)

\* The handlers never touch the memo.
memo_after_except(memo) == memo

(* -------------------------------- state -------------------------------- *)

VARIABLES
    insights,     \* memo_manager.insights
    schema,       \* the module-level schema dict
    resource,     \* what the last resource read returned
    pc,           \* where each invocation is
    args,         \* the arguments of each invocation
    query,        \* read_query: its local `query` once stripped
    matching,     \* history: the rows the database held for the call's query
    results,      \* read_query / list_tables / describe_table: results
    total,        \* append_insight: total_insights
    exc,          \* the exception a try body raised
    outcome,      \* what the caller got
    trace,        \* per invocation: notifications sent and execute calls made
    appended      \* history: the add_insights calls that went through, in order

vars == <<insights, schema, resource, pc, args, query, matching, results,
          total, exc, outcome, trace, appended>>

\* database_schema.json as json.load reads it.
SchemaDocument ==
    [schema_version |-> "1.0", database |-> "aact",
     tables |-> [studies |-> <<"nct_id", "brief_title">>]]

\* `except Exception: schema = {}`
EmptySchema == [tables |-> <<>>]

Init ==
    /\ insights = <<>>
    /\ schema \in {SchemaDocument, EmptySchema}
    /\ resource = [uri |-> "", body |-> <<>>]
    /\ pc = [p \in Calls |-> "idle"]
    /\ args = [p \in Calls |-> NoArgs]
    /\ query = [p \in Calls |-> <<>>]
    /\ matching = [p \in Calls |-> 0]
    /\ results = [p \in Calls |-> <<>>]
    /\ total = [p \in Calls |-> 0]
    /\ exc = [p \in Calls |-> NoExc]
    /\ outcome = [p \in Calls |-> NoOutcome]
    /\ trace = [p \in Calls |-> <<>>]
    /\ appended = <<>>

(* ------------------------------- actions ------------------------------- *)

Emit(p, ev) == trace' = [trace EXCEPT ![p] = Append(@, ev)]

\* The invocation ends before its try block: the exception goes to the caller.
RaiseToCaller(p, e) ==
    /\ outcome' = [outcome EXCEPT ![p] = Raised(e)]
    /\ pc' = [pc EXCEPT ![p] = "done"]
    /\ UNCHANGED <<exc, trace>>

\* `await ctx.<notification>` inside a try body: delivered, and the
\* invocation resumes at `next`, or the ToolHost raises into the handler.
Await(p, ev, next) ==
    /\ Emit(p, ev)
    /\ \E delivered \in BOOLEAN :
          IF delivered
          THEN /\ pc' = [pc EXCEPT ![p] = next]
               /\ exc' = exc
          ELSE /\ pc' = [pc EXCEPT ![p] = "except"]
               /\ exc' = [exc EXCEPT ![p] = NotifyError]
    /\ outcome' = outcome

\* Appends the ToolHost has dispatched that have not reached the memo yet.
PendingAppends ==
    {q \in Calls : pc[q] = "called" /\ args[q].tool = "append_insight"}

\* The ToolHost dispatches a tool call.
Invoke(p, inputs) ==
    /\ pc[p] = "idle"
    /\ \E a \in inputs :
          /\ a.tool = "append_insight" =>
                Len(insights) + Cardinality(PendingAppends) < MaxMemo
          /\ args' = [args EXCEPT ![p] = a]
    /\ pc' = [pc EXCEPT ![p] = "called"]
    /\ UNCHANGED <<insights, schema, resource, query, matching, results, total,
                   exc, outcome, trace, appended>>

\* list_tables up to `await ctx.info(...)`.
list_tables_info(p) ==
    /\ pc[p] = "called" /\ args[p].tool = "list_tables"
    /\ Await(p, Event("info", 0, <<>>), "execute")
    /\ UNCHANGED <<insights, schema, resource, args, query, matching, results,
                   total, appended>>

\* describe_table up to `await ctx.info(...)`.
describe_table_info(p) ==
    /\ pc[p] = "called" /\ args[p].tool = "describe_table"
    /\ IF table_name_missing(args[p].table_name)
       THEN RaiseToCaller(p, ValueError("Missing table_name argument"))
       ELSE Await(p, Event("info", 0, <<>>), "execute")
    /\ UNCHANGED <<insights, schema, resource, args, query, matching, results,
                   total, appended>>

\* read_query up to `await ctx.info(...)`.
read_query_info(p) ==
    /\ pc[p] = "called" /\ args[p].tool = "read_query"
    /\ IF query_missing(args[p].query)
       THEN /\ RaiseToCaller(p, ValueError("Missing query argument"))
            /\ query' = query
       ELSE IF ~is_select(args[p].query)
       THEN /\ RaiseToCaller(p, ValueError("Only SELECT queries are allowed"))
            /\ query' = [query EXCEPT ![p] = Strip(args[p].query)]
       ELSE /\ Await(p, Event("info", args[p].max_rows, <<>>), "execute")
            /\ query' = [query EXCEPT ![p] = Strip(args[p].query)]
    /\ UNCHANGED <<insights, schema, resource, args, matching, results, total,
                   appended>>

\* The SQL text a tool hands to db.execute_query.
Sql(p) ==
    CASE args[p].tool = "list_tables" -> <<"information_schema.tables">>
      [] args[p].tool = "describe_table" -> <<"information_schema.columns">>
      [] OTHER -> query[p]

\* `results = db.execute_query(...)`, the count, and `await ctx.debug(...)`.
\* The database holds k matching rows, or the call fails.
execute_query_step(p, counts) ==
    /\ pc[p] = "execute"
    /\ \E k \in counts, ok \in BOOLEAN :
         LET limited == args[p].tool = "read_query"
             call == Event("execute", IF limited THEN args[p].max_rows ELSE 0,
                           Sql(p))
             rows == execute_query(Rows(k), limited, args[p].max_rows)
         IN  IF ok
             THEN /\ results' = [results EXCEPT ![p] = rows]
                  /\ matching' = [matching EXCEPT ![p] = k]
                  /\ \E delivered \in BOOLEAN :
                        IF delivered
                        THEN /\ pc' = [pc EXCEPT ![p] = "debugged"]
                             /\ exc' = exc
                        ELSE /\ pc' = [pc EXCEPT ![p] = "except"]
                             /\ exc' = [exc EXCEPT ![p] = NotifyError]
                  /\ trace' = [trace EXCEPT ![p] =
                                  @ \o <<call, Event("debug", Len(rows), <<>>)>>]
             ELSE /\ results' = results
                  /\ matching' = matching
                  /\ pc' = [pc EXCEPT ![p] = after_execute_error]
                  /\ exc' = [exc EXCEPT ![p] = DatabaseError]
                  /\ trace' = [trace EXCEPT ![p] = Append(@, call)]
    /\ UNCHANGED <<insights, schema, resource, args, query, total, outcome,
                   appended>>

\* read_query: `await ctx.report_progress(progress=1.0, total=1.0, ...)`.
read_query_progress(p) ==
    /\ pc[p] = "debugged" /\ args[p].tool = "read_query"
    /\ reports_progress(Len(results[p]))
    /\ Await(p, Event("progress", 1, <<1>>), "progressed")
    /\ UNCHANGED <<insights, schema, resource, args, query, matching, results,
                   total, appended>>

\* append_insight up to `await ctx.info(...)`: the check of the argument,
\* add_insights and the count run without an await between them.
append_insight_add(p) ==
    /\ pc[p] = "called" /\ args[p].tool = "append_insight"
    /\ IF finding_missing(args[p].finding)
       THEN /\ RaiseToCaller(p, ValueError("Missing finding argument"))
            /\ UNCHANGED <<insights, total, appended>>
       ELSE IF add_insights_rejects(args[p].finding)
       THEN /\ pc' = [pc EXCEPT ![p] = "except"]
            /\ exc' = [exc EXCEPT ![p] = ValueError("Empty insight")]
            /\ UNCHANGED <<insights, total, appended, outcome, trace>>
       ELSE LET memo == add_insights(insights, args[p].finding)
                n == total_insights(insights, memo)
            IN  /\ insights' = memo
                /\ appended' = Append(appended,
                                      [call |-> p, finding |-> args[p].finding])
                /\ total' = [total EXCEPT ![p] = n]
                /\ Await(p, Event("info", n, <<>>), "info_sent")
    /\ UNCHANGED <<schema, resource, args, query, matching, results>>

\* append_insight: `await ctx.session.send_resource_list_changed()`.
append_insight_notify(p) ==
    /\ pc[p] = "info_sent"
    /\ Await(p, Event("resource_list_changed", 0, <<>>), "notified")
    /\ UNCHANGED <<insights, schema, resource, args, query, matching, results,
                   total, appended>>

\* The value a tool builds for its `return`.
ReturnValue(p) ==
    CASE args[p].tool = "read_query" ->
            QueryResult(results[p], Len(results[p]),
                        truncated(Len(results[p]), args[p].max_rows))
      [] args[p].tool = "append_insight" -> InsightResponse(total[p])
      [] OTHER -> results[p]

\* The `return` of a tool.
tool_return(p) ==
    /\ \/ pc[p] = "debugged" /\ args[p].tool \in {"list_tables", "describe_table"}
       \/ pc[p] = "debugged" /\ args[p].tool = "read_query"
                             /\ ~reports_progress(Len(results[p]))
       \/ pc[p] = "progressed"
       \/ pc[p] = "notified"
    /\ outcome' = [outcome EXCEPT ![p] = Returned(ReturnValue(p))]
    /\ pc' = [pc EXCEPT ![p] = "done"]
    /\ UNCHANGED <<insights, schema, resource, args, query, matching, results,
                   total, exc, trace, appended>>

\* `except Exception as e: await ctx.error(...); raise`.  The error line is
\* taken as delivered: the bare `raise` then hands the caught exception on.
tool_except(p) ==
    /\ pc[p] = "except"
    /\ Emit(p, Event("error", 0, <<>>))
    /\ insights' = memo_after_except(insights)
    /\ outcome' = [outcome EXCEPT ![p] = except_outcome(exc[p])]
    /\ pc' = [pc EXCEPT ![p] = "done"]
    /\ UNCHANGED <<schema, resource, args, query, matching, results, total,
                   exc, appended>>

\* The ToolHost has the response; the invocation's frame is gone.
Respond(p) ==
    /\ pc[p] = "done"
    /\ pc' = [pc EXCEPT ![p] = "idle"]
    /\ args' = [args EXCEPT ![p] = NoArgs]
    /\ query' = [query EXCEPT ![p] = <<>>]
    /\ matching' = [matching EXCEPT ![p] = 0]
    /\ results' = [results EXCEPT ![p] = <<>>]
    /\ total' = [total EXCEPT ![p] = 0]
    /\ exc' = [exc EXCEPT ![p] = NoExc]
    /\ outcome' = [outcome EXCEPT ![p] = NoOutcome]
    /\ trace' = [trace EXCEPT ![p] = <<>>]
    /\ UNCHANGED <<insights, schema, resource, appended>>

\* Resource schema://database: `json.dumps(schema, indent=2)`.
get_schema ==
    /\ resource' = [uri |-> "schema://database", body |-> <<"json", schema>>]
    /\ UNCHANGED <<insights, schema, pc, args, query, matching, results, total,
                   exc, outcome, trace, appended>>

\* Resource memo://insights: `memo_manager.get_insights_memo()`.
get_insights_memo ==
    /\ resource' = [uri |-> "memo://insights", body |-> render(insights)]
    /\ UNCHANGED <<insights, schema, pc, args, query, matching, results, total,
                   exc, outcome, trace, appended>>

(* ---------------------------- specifications --------------------------- *)

\* Invocations dispatched concurrently on the event loop, one per slot.
Next ==
    \/ \E p \in Calls : Invoke(p, ConcInputs)
    \/ \E p \in Calls : list_tables_info(p)
    \/ \E p \in Calls : describe_table_info(p)
    \/ \E p \in Calls : read_query_info(p)
    \/ \E p \in Calls : execute_query_step(p, ConcRowCounts)
    \/ \E p \in Calls : read_query_progress(p)
    \/ \E p \in Calls : append_insight_add(p)
    \/ \E p \in Calls : append_insight_notify(p)
    \/ \E p \in Calls : tool_return(p)
    \/ \E p \in Calls : tool_except(p)
    \/ get_schema
    \/ get_insights_memo

Spec == Init /\ [][Next]_vars

\* One invocation after another, over the full range of arguments.
SeqCalls == {1}

NextSeq ==
    \/ \E p \in SeqCalls : Invoke(p, SeqInputs)
    \/ \E p \in SeqCalls : list_tables_info(p)
    \/ \E p \in SeqCalls : describe_table_info(p)
    \/ \E p \in SeqCalls : read_query_info(p)
    \/ \E p \in SeqCalls : execute_query_step(p, SeqRowCounts)
    \/ \E p \in SeqCalls : read_query_progress(p)
    \/ \E p \in SeqCalls : append_insight_add(p)
    \/ \E p \in SeqCalls : append_insight_notify(p)
    \/ \E p \in SeqCalls : tool_return(p)
    \/ \E p \in SeqCalls : tool_except(p)
    \/ \E p \in SeqCalls : Respond(p)
    \/ get_schema
    \/ get_insights_memo

SpecSeq == Init /\ [][NextSeq]_vars

(* ------------------------- vocabulary of the claims -------------------- *)

Done(p) == pc[p] = "done"
Tool(p) == args[p].tool
ReturnedOk(p) == Done(p) /\ outcome[p].kind = "returned"
Failed(p) == Done(p) /\ outcome[p].kind = "raised"

\* How many events of a kind an invocation has made.
Count(p, kind) == Cardinality({i \in DOMAIN trace[p] : trace[p][i].kind = kind})

\* The error kinds of the specification, told apart by the messages.
InvalidArgument(e) ==
    /\ e.type = "ValueError"
    /\ e.msg \in {"Missing table_name argument", "Missing query argument",
                  "Missing finding argument", "Empty insight"}
RejectedQuery(e) ==
    e.type = "ValueError" /\ e.msg = "Only SELECT queries are allowed"

LowerChar(c) ==
    IF \E i \in 1..26 : UpperCase[i] = c
    THEN LowerCase[CHOOSE i \in 1..26 : UpperCase[i] = c]
    ELSE c

\* The text has the letters s-e-l-e-c-t, in either case, right after its
\* leading whitespace.
LeadsWithSelect(q) ==
    \E i \in 1..Len(q) :
        /\ \A j \in 1..(i - 1) : q[j] \in Whitespace
        /\ i + 5 <= Len(q)
        /\ <<LowerChar(q[i]), LowerChar(q[i + 1]), LowerChar(q[i + 2]),
             LowerChar(q[i + 3]), LowerChar(q[i + 4]), LowerChar(q[i + 5])>>
              = <<"s", "e", "l", "e", "c", "t">>

\* A read_query invocation whose query does not lead with SELECT.
NonSelectCall(p) ==
    Tool(p) = "read_query" /\ ~LeadsWithSelect(args[p].query)

\* Such an invocation is rejected and never gets to the database.
RejectedUnexecuted(p) ==
    /\ pc[p] \in {"called", "done"}
    /\ Count(p, "execute") = 0
    /\ Done(p) => Failed(p) /\ RejectedQuery(outcome[p].exc)

(* -------------------------------- claims ------------------------------- *)

\* C1 as stated: every query that does not lead with SELECT, the empty one
\* included, fails with the rejected-query error and is never executed.
C1_AnyNonSelectRejected ==
    \A p \in Calls : NonSelectCall(p) => RejectedUnexecuted(p)

\* C1, amended: every non-empty query whose trimmed text does not begin,
\* case-insensitively, with SELECT fails with the rejected-query error, and
\* execute_query is never called for that invocation.
C1_NonSelectRejected ==
    \A p \in Calls :
        NonSelectCall(p) /\ args[p].query # <<>> => RejectedUnexecuted(p)

\* C1: a padded, lower-case non-SELECT statement has been rejected.
C1_Witness ==
    \E p \in Calls :
        /\ NonSelectCall(p) /\ Failed(p)
        /\ args[p].query # <<>>
        /\ Head(args[p].query) \in Whitespace
        /\ query[p] = <<"i","n","s","e","r","t"," ","1">>
        /\ RejectedQuery(outcome[p].exc)

C10_EventOrder ==
    \A p \in Calls :
        Tool(p) = "read_query" /\ ReturnedOk(p) =>
            LET n == args[p].max_rows
                rc == outcome[p].value.row_count
                head == << [kind |-> "info", a |-> n, b |-> <<>>],
                           [kind |-> "execute", a |-> n, b |-> query[p]],
                           [kind |-> "debug", a |-> rc, b |-> <<>>] >>
            IN  IF rc > 10
                THEN trace[p] = Append(head, [kind |-> "progress", a |-> 1,
                                              b |-> <<1>>])
                ELSE trace[p] = head

\* C10: eleven rows came back and the progress notification went out.
C10_Witness ==
    \E p \in Calls :
        /\ Tool(p) = "read_query" /\ ReturnedOk(p)
        /\ outcome[p].value.row_count = 11
        /\ Count(p, "progress") = 1

\* An append_insight invocation whose finding is empty or only whitespace.
BlankFinding(p) ==
    /\ Tool(p) = "append_insight"
    /\ \A i \in 1..Len(args[p].finding) : args[p].finding[i] \in Whitespace

C5_NotifyFailureStillSucceeds ==
    \A p \in Calls :
        Tool(p) = "append_insight" /\ Done(p) /\ exc[p] = NotifyError =>
            /\ insights # <<>>
            /\ insights[Len(insights)] = args[p].finding
            /\ ReturnedOk(p)
            /\ outcome[p].value.success

\* C6 as stated: every failing invocation, a failed validation included, has
\* sent an error notification just before the failure reached the caller.
C6_EveryFailureNotified ==
    \A p \in Calls :
        Failed(p) =>
            /\ trace[p] # <<>>
            /\ trace[p][Len(trace[p])].kind = "error"

\* An invocation whose required argument is empty.
EmptyArgument(p) ==
    \/ Tool(p) = "describe_table" /\ args[p].table_name = ""
    \/ Tool(p) = "read_query" /\ args[p].query = <<>>
    \/ Tool(p) = "append_insight" /\ args[p].finding = <<>>

\* C8: an invocation with an empty required argument fails with
\* InvalidArgument without an execute call and without changing the memo,
\* and no InvalidArgument failure comes after an execute call.
C8_InvalidArgumentFirst ==
    /\ [](\A p \in Calls :
            /\ EmptyArgument(p) =>
                  /\ pc[p] \in {"called", "done"}
                  /\ Count(p, "execute") = 0
                  /\ Done(p) => Failed(p) /\ InvalidArgument(outcome[p].exc)
            /\ Failed(p) /\ InvalidArgument(outcome[p].exc) =>
                  Count(p, "execute") = 0)
    /\ [][\A p \in Calls :
            EmptyArgument(p) /\ pc'[p] # pc[p] => insights' = insights]_vars

\* C8: describe_table with an empty table_name has failed.
C8_Witness ==
    \E p \in Calls :
        /\ Tool(p) = "describe_table" /\ args[p].table_name = ""
        /\ Failed(p)
        /\ outcome[p].exc.msg = "Missing table_name argument"

HasAppended(p) ==
    /\ Tool(p) = "append_insight"
    /\ trace[p] # <<>>
    /\ trace[p][1].kind = "info"

\* The places of an invocation's findings in the order of the appends.
PlacesOf(p) == {i \in DOMAIN appended : appended[i].call = p}

\* C4: whatever the interleaving, the memo holds one entry per append that
\* went through, each invocation's finding exactly once, and the
\* total_insights an invocation returns is the length the memo had right
\* after its own append, so no two invocations return the same total.
C4_NoLostAppend ==
    /\ Len(insights) = Cardinality({p \in Calls : HasAppended(p)})
    /\ \A p \in Calls :
          HasAppended(p) =>
              \E i \in DOMAIN insights :
                  /\ PlacesOf(p) = {i}
                  /\ insights[i] = args[p].finding
                  /\ ReturnedOk(p) => outcome[p].value.total_insights = i
    /\ \A p, q \in Calls :
          /\ p # q
          /\ Tool(p) = "append_insight" /\ ReturnedOk(p)
          /\ Tool(q) = "append_insight" /\ ReturnedOk(q)
          => outcome[p].value.total_insights # outcome[q].value.total_insights

\* C4: two appends of the same finding were in flight together; the one that
\* appended second has returned 2 while the first, whose entry is at place 1,
\* has not returned yet.
C4_Witness ==
    \E p, q \in Calls :
        /\ p # q
        /\ HasAppended(p) /\ pc[p] = "info_sent" /\ PlacesOf(p) = {1}
        /\ ReturnedOk(q) /\ PlacesOf(q) = {2}
        /\ outcome[q].value.total_insights = 2
        /\ insights = <<args[p].finding, args[q].finding>>
        /\ args[p].finding = args[q].finding

\* The findings appended so far, in the order of the appends.
AppendedFindings == [i \in DOMAIN appended |-> appended[i].finding]

\* The step is the add_insights of an append_insight invocation.
AppendStep(p) ==
    /\ Tool(p) = "append_insight"
    /\ pc[p] = "called"
    /\ pc'[p] \in {"info_sent", "except"}
    /\ insights' = Append(insights, args[p].finding)

\* C7: the memo is the findings of the appends that went through, in their
\* order; a step changes it only by putting an append_insight invocation's
\* finding at its tail; steps of list_tables, describe_table and read_query
\* and reads of the two resources leave it as it is.
C7_MemoAppendOnly ==
    /\ [](insights = AppendedFindings)
    /\ [][\/ insights' = insights
          \/ \E p \in Calls : AppendStep(p)]_vars
    /\ [][\A p \in Calls :
            Tool(p) \in {"list_tables", "describe_table", "read_query"}
            /\ pc'[p] # pc[p] => insights' = insights]_vars
    /\ [][resource' # resource => insights' = insights]_vars

\* C7: with a finding in the memo, a list_tables invocation has failed and
\* the memo resource has been read.
C7_Witness ==
    /\ Len(insights) = 1
    /\ resource.uri = "memo://insights"
    /\ resource.body.findings = insights
    /\ \E p \in Calls : Tool(p) = "list_tables" /\ Failed(p)

====
